---------------------------- MODULE Spec2Model ----------------------------
(***************************************************************************)
(* The browser client of the AI caption creator (src/frontend/app.js) as a *)
(* state machine: the module-level state and the DOM properties the        *)
(* handlers write, one action per event handler and per continuation of an *)
(* async function (the code after an await runs as a step of its own).     *)
(* The backend (FastAPI) is not part of the sources; what it answers is    *)
(* modelled from the specification (HandlerResponses) and every other      *)
(* answer the client can receive over HTTP is kept as well                 *)
(* (ForeignResponses).                                                     *)
(***************************************************************************)
EXTENDS Integers, Sequences, FiniteSets, TLC

(***************************************************************************)
(* Bounds of the model and constants of the program.                       *)
(***************************************************************************)
MaxCore == 10        \* longest run of letters typed into the brief
MaxReaders == 2      \* FileReader loads pending at the same time
TimeSteps == 3       \* clock steps that make up the toast's delay
MaxTimers == 2       \* toasts pending or under way when the user acts

MinBriefLen == 10    \* app.js:191
CharWarn == 950      \* app.js:152
ToastDelay == 3000   \* app.js:346

TickMs == ToastDelay \div TimeSteps

(***************************************************************************)
(* Strings the code handles character by character are sequences of        *)
(* one-character strings; a character that TLA+ cannot write in a string   *)
(* is the name of its code point.                                          *)
(***************************************************************************)
\* What String.prototype.trim strips: WhiteSpace and LineTerminator of
\* ECMAScript (TAB, VT, FF, SP, NBSP, ZWNBSP, the space separators of
\* Unicode; LF, CR, LS, PS)
Whitespace ==
    {"\t", "U+000B", "\f", " ", "U+00A0", "U+FEFF",
     "U+1680", "U+2000", "U+2001", "U+2002", "U+2003", "U+2004", "U+2005",
     "U+2006", "U+2007", "U+2008", "U+2009", "U+200A", "U+202F", "U+205F",
     "U+3000",
     "\n", "\r", "U+2028", "U+2029"}

RECURSIVE Repeat(_, _)
Repeat(ch, n) == IF n = 0 THEN <<>> ELSE <<ch>> \o Repeat(ch, n - 1)

RECURSIVE TrimStart(_)
TrimStart(s) ==
    IF s # <<>> /\ Head(s) \in Whitespace THEN TrimStart(Tail(s)) ELSE s

RECURSIVE TrimEnd(_)
TrimEnd(s) ==
    IF s # <<>> /\ s[Len(s)] \in Whitespace
    THEN TrimEnd(SubSeq(s, 1, Len(s) - 1))
    ELSE s

\* String.prototype.trim
Trim(s) == TrimEnd(TrimStart(s))

\* String.prototype.startsWith
StartsWith(s, prefix) ==
    /\ Len(s) >= Len(prefix)
    /\ SubSeq(s, 1, Len(prefix)) = prefix

(***************************************************************************)
(* Files the user can pick or drop.  NoFile is files[0] of an empty list.  *)
(***************************************************************************)
ImagePrefix == <<"i", "m", "a", "g", "e", "/">>
NoFile == "none"
Null == "null"
Files == {"a.png", "b.jpg", "notes.txt", "untyped"}

FileType(f) ==
    CASE f = "a.png" -> ImagePrefix \o <<"p", "n", "g">>
      [] f = "b.jpg" -> ImagePrefix \o <<"j", "p", "e", "g">>
      [] f = "notes.txt" -> <<"t", "e", "x", "t", "/", "p", "l", "a", "i", "n">>
      [] OTHER -> <<>>

\* A check that forgets the type of the file
IsValidImageAnyType(file) == file # NoFile

\* file && file.type.startsWith('image/')
IsValidImage(file) == file # NoFile /\ StartsWith(FileType(file), ImagePrefix)

\* FileReader.readAsDataURL: the data URL of the file's content
DataURL(f) == "data:" \o f

\* What the user can have typed into the text brief
Cores ==
    { Repeat("a", n) : n \in {0} \cup ((MinBriefLen - 1)..MaxCore) }
    \cup { Repeat("a", MinBriefLen - 2) \o <<" ">> \o Repeat("a", 1) }
TextInputs ==
    Cores
    \cup { <<" ", "\n">> \o core \o <<"\t">> : core \in Cores }
    \cup { <<"\f">> \o core \o <<"\r", "U+00A0">> : core \in Cores }

(***************************************************************************)
(* Response bodies.  kind is "notjson" (response.json() rejects), "null"   *)
(* (the JSON value null) or "object"; raw is the text of a body that is    *)
(* not JSON; has is the set of the object's fields.  A field that is       *)
(* absent keeps a value of its type that nothing reads.                    *)
(***************************************************************************)
NoPosting == [time |-> "", day |-> "", reason |-> ""]

Body(kind, raw, has, content_type, captions, hashtag_sets, posting_time, error) ==
    [kind |-> kind, raw |-> raw, has |-> has, content_type |-> content_type,
     captions |-> captions, hashtag_sets |-> hashtag_sets,
     posting_time |-> posting_time, error |-> error]

\* Bodies that are not JSON: an empty body and an HTML page
NonJsonBodies == {<<>>, <<"<", "h", "t", "m", "l", ">">>}

NotJson(raw) == Body("notjson", raw, {}, "", <<>>, <<>>, NoPosting, "")
JsonNull == Body("null", <<>>, {}, "", <<>>, <<>>, NoPosting, "")
ErrorBody(msg) == Body("object", <<>>, {"error"}, "", <<>>, <<>>, NoPosting, msg)
EmptyObject == Body("object", <<>>, {}, "", <<>>, <<>>, NoPosting, "")
ResultFields == {"content_type", "captions", "hashtag_sets", "posting_time"}
ResultBody(r) ==
    Body("object", <<>>, ResultFields, r.content_type, r.captions, r.hashtag_sets,
         r.posting_time, "")

(***************************************************************************)
(* The backend, modelled from the specification (its code is not among the *)
(* sources).  The AI's raw output either cannot be decoded or holds some   *)
(* captions, some hashtag sets and perhaps a posting time; parse pads and  *)
(* defaults it to the fixed shape of a GenerationResult.                   *)
(***************************************************************************)
ResultCount == 3     \* README Features: three captions, three hashtag sets

Caption(tone, caption) == [tone |-> tone, caption |-> caption]
HashtagSet(category, hashtags) == [category |-> category, hashtags |-> hashtags]

PlaceholderCaption == Caption("placeholder", "(no caption generated)")
PlaceholderSet == HashtagSet("placeholder", <<"#placeholder">>)
DefaultPosting ==
    [time |-> "Anytime", day |-> "Any day", reason |-> "No suggestion was generated"]

RawOutput(decodable, captions, hashtag_sets, hasPosting, posting) ==
    [decodable |-> decodable, captions |-> captions,
     hashtag_sets |-> hashtag_sets, hasPosting |-> hasPosting,
     posting |-> posting]

FullRaw ==
    RawOutput(TRUE,
              <<Caption("fun", "c1"), Caption("bold", "c2"), Caption("calm", "c3")>>,
              <<HashtagSet("brand", <<"#a", "#b">>), HashtagSet("niche", <<"#c">>),
                HashtagSet("trend", <<"#d">>)>>,
              TRUE, [time |-> "9 AM", day |-> "Monday", reason |-> "reach"])
PartialRaw ==
    RawOutput(TRUE, <<Caption("fun", "c1")>>,
              <<HashtagSet("brand", <<>>), HashtagSet("niche", <<"#c">>)>>,
              FALSE, NoPosting)
GarbageRaw == RawOutput(FALSE, <<>>, <<>>, FALSE, NoPosting)
RawOutputs == {FullRaw, PartialRaw, GarbageRaw}

RECURSIVE PadTo(_, _, _)
PadTo(s, n, filler) ==
    IF Len(s) >= n THEN SubSeq(s, 1, n) ELSE PadTo(Append(s, filler), n, filler)

\* A hashtag set without hashtags gets the default ones
FillSet(set) ==
    IF set.hashtags = <<>>
    THEN HashtagSet(set.category, PlaceholderSet.hashtags)
    ELSE set

\* parse(rawText) -> GenerationResult, for a raw output that can be decoded
Parse(raw) ==
    [content_type |-> "product",
     captions |-> PadTo(raw.captions, ResultCount, PlaceholderCaption),
     hashtag_sets |->
        PadTo([i \in 1..Len(raw.hashtag_sets) |-> FillSet(raw.hashtag_sets[i])],
              ResultCount, PlaceholderSet),
     posting_time |-> IF raw.hasPosting THEN raw.posting ELSE DefaultPosting]

Response(ok, body) == [ok |-> ok, body |-> body]

GenerationResults == { Parse(raw) : raw \in { r \in RawOutputs : r.decodable } }

\* What handleImageRequest / handleTextRequest answer to a valid request
HandlerResponses ==
    { Response(TRUE, ResultBody(r)) : r \in GenerationResults }
    \cup { Response(FALSE, ErrorBody("The AI service did not answer")),
           Response(FALSE, ErrorBody("The AI response could not be parsed")) }

(***************************************************************************)
(* Answers that reach the client from anything else that listens on the    *)
(* API's address or stands before it: a body that is not JSON, a JSON body  *)
(* without an error string, a 200 answer that lacks fields of the result.   *)
(***************************************************************************)
TruncatedResult ==
    Body("object", <<>>, {"content_type", "captions"}, "product",
         Parse(FullRaw).captions, <<>>, NoPosting, "")

ForeignResponses ==
    { Response(ok, NotJson(raw)) : ok \in BOOLEAN, raw \in NonJsonBodies }
    \cup { Response(FALSE, JsonNull), Response(FALSE, EmptyObject),
           Response(FALSE, ErrorBody("")), Response(TRUE, TruncatedResult) }

Responses == HandlerResponses \cup ForeignResponses

\* The requests the client builds
HealthRequest ==
    [endpoint |-> "/health", method |-> "GET",
     field |-> "", file |-> NoFile, text |-> <<>>]
ImageRequest(file) ==
    [endpoint |-> "/generate/image", method |-> "POST",
     field |-> "file", file |-> file, text |-> <<>>]
TextRequest(text) ==
    [endpoint |-> "/generate/text", method |-> "POST",
     field |-> "text_brief", file |-> NoFile, text |-> text]

\* The characters of a string, put together
RECURSIVE Join(_)
Join(s) == IF s = <<>> THEN "" ELSE Head(s) \o Join(Tail(s))

\* Messages of the exceptions the engine raises, in the words of V8.  The
\* SyntaxError of response.json() names what the body holds: nothing, or a
\* first character that starts no JSON value (the body is quoted in full
\* when it is short, as the bodies of NonJsonBodies are).
FetchErrorMessage == "Failed to fetch"
JsonErrorMessage(raw) ==
    IF raw = <<>>
    THEN "Unexpected end of JSON input"
    ELSE "Unexpected token '" \o Head(raw) \o "', \"" \o Join(raw)
         \o "\" is not valid JSON"
TypeErrorMessage(property) == "Cannot read properties of undefined (reading '" \o property \o "')"
NullErrorMessage(property) == "Cannot read properties of null (reading '" \o property \o "')"

(***************************************************************************)
(* State.                                                                  *)
(***************************************************************************)
VARIABLES
    healthPc,                 \* checkServerHealth: "unloaded" before DOMContentLoaded,
                              \* "fetching", then how it ended: "ok", "notok", "failed"
    selectedImage,            \* let selectedImage
    previewImgSrc,            \* previewImg.src
    uploadAreaDisplay,        \* uploadArea.style.display
    imagePreviewDisplay,      \* imagePreview.style.display
    generateFromImageDisplay, \* generateFromImage.style.display
    readers,                  \* FileReader loads that have not fired onload yet, per file
    textBrief,                \* textBrief.value
    charCount,                \* charCount.textContent and charCount.style.color
    buttons,                  \* per type: the button's disabled, its label's and its spinner's display
    calls,                    \* invocations of generateCaptionsFrom* suspended at an await
    wire,                     \* the requests the latest step sent
    contentTypeText,          \* contentTypeText.textContent
    captionsGrid,             \* the cards of captionsGrid
    hashtagsGrid,             \* the cards of hashtagsGrid
    postingTimeCard,          \* postingTimeCard.innerHTML
    resultsSectionDisplay,    \* resultsSection.style.display
    toast,                    \* toastMessage.textContent, toast.style.background, class 'show'
    timers,                   \* milliseconds left of each setTimeout callback pending,
                              \* in the order of the calls
    sinceToast,               \* milliseconds since the latest showToast call, up to ToastDelay
    copies                    \* per type: the clipboard writes of copyToClipboard
                              \* that have not settled yet

selectionVars ==
    <<selectedImage, previewImgSrc, uploadAreaDisplay,
      imagePreviewDisplay, generateFromImageDisplay, readers>>
textVars == <<textBrief, charCount>>
resultVars ==
    <<contentTypeText, captionsGrid, hashtagsGrid, postingTimeCard,
      resultsSectionDisplay>>
toastVars == <<toast, timers, sinceToast>>
callVars == <<buttons, calls>>
vars ==
    <<healthPc, selectionVars, textVars, resultVars, toastVars, callVars, wire,
      copies>>

Types == {"image", "text"}

\* The second argument of copyToClipboard, and the last characters of the
\* message of a copy that succeeded (by their code points)
CopyTypes == {"Caption", "Hashtags"}
CopiedMark == "U+201A U+00FA U+00EC"

\* The listeners are registered by the DOMContentLoaded handler
listening == healthPc # "unloaded"

(***************************************************************************)
(* The user.  Nothing in the code limits how many toasts are pending: the  *)
(* number is that of the user's actions within ToastDelay.  The user of    *)
(* the model starts something that shows a toast, now or when a promise    *)
(* settles, only while fewer than MaxTimers toasts are outstanding: the    *)
(* callbacks pending and the toasts that what is under way can still show  *)
(* (one per request, per clipboard write and for the liveness check).      *)
(* No continuation and no callback waits for anything.                     *)
(***************************************************************************)
PendingCopies == copies["Caption"] + copies["Hashtags"]

Outstanding ==
    Len(timers) + Cardinality(calls) + PendingCopies
    + (IF healthPc = "fetching" THEN 1 ELSE 0)

UserActs == Outstanding < MaxTimers

(***************************************************************************)
(* showToast(message, type).  Every call registers a setTimeout callback   *)
(* of its own and clears none; timers holds the time left of each.         *)
(***************************************************************************)
ToastShown(message, type) ==
    [message |-> message,
     background |-> IF type = "error" THEN "var(--error-color)"
                                      ELSE "var(--success-color)",
     show |-> TRUE]

ShowToast(message, type) ==
    /\ toast' = ToastShown(message, type)
    /\ timers' = Append(timers, ToastDelay)
    /\ sinceToast' = 0

(***************************************************************************)
(* setLoadingState(loading, type)                                          *)
(***************************************************************************)
LoadingState(loading) ==
    [disabled |-> loading,
     text |-> IF loading THEN "none" ELSE "inline",
     spinner |-> IF loading THEN "block" ELSE "none"]

SetLoadingState(b, loading, type) ==
    IF type \in Types THEN [b EXCEPT ![type] = LoadingState(loading)] ELSE b

(***************************************************************************)
(* displayResults(data), statement by statement.  The results area is a    *)
(* record of the five properties it writes; an exception leaves the area   *)
(* as the statements before it made it.                                    *)
(***************************************************************************)
CreateCaptionCard(caption) ==
    [class |-> "caption-card", tone |-> caption.tone, text |-> caption.caption]

CreateHashtagCard(set) ==
    [class |-> "hashtag-card", category |-> set.category, tags |-> set.hashtags]

CreatePostingTimeContent(postingTime) ==
    [time |-> postingTime.time, day |-> postingTime.day,
     reason |-> postingTime.reason]

\* The cards appended without the grid being emptied first
CaptionCardsKeepOld(grid, captions) ==
    grid \o [i \in 1..Len(captions) |-> CreateCaptionCard(captions[i])]

\* captionsGrid.innerHTML = ''; data.captions.forEach(... appendChild ...)
CaptionCards(grid, captions) ==
    [i \in 1..Len(captions) |-> CreateCaptionCard(captions[i])]

\* hashtagsGrid.innerHTML = ''; data.hashtag_sets.forEach(... appendChild ...)
HashtagCards(grid, sets) ==
    [i \in 1..Len(sets) |-> CreateHashtagCard(sets[i])]

Area(contentType, captions, hashtags, posting, display) ==
    [contentTypeText |-> contentType, captionsGrid |-> captions,
     hashtagsGrid |-> hashtags, postingTimeCard |-> posting,
     resultsSectionDisplay |-> display]

Outcome(area, thrown, message) ==
    [area |-> area, thrown |-> thrown, message |-> message]

DisplayResults(data, area) ==
    IF data.kind = "null"
    THEN Outcome(area, TRUE, NullErrorMessage("content_type"))
    ELSE
    LET a1 == [area EXCEPT !.contentTypeText =
                  IF "content_type" \in data.has THEN data.content_type ELSE ""]
        a2 == [a1 EXCEPT !.captionsGrid = <<>>]
        a3 == [a2 EXCEPT !.captionsGrid = CaptionCards(a1.captionsGrid, data.captions)]
        a4 == [a3 EXCEPT !.hashtagsGrid = <<>>]
        a5 == [a4 EXCEPT !.hashtagsGrid = HashtagCards(a3.hashtagsGrid, data.hashtag_sets)]
        a6 == [a5 EXCEPT !.postingTimeCard = CreatePostingTimeContent(data.posting_time)]
        a7 == [a6 EXCEPT !.resultsSectionDisplay = "block"]
    IN  IF "captions" \notin data.has
        THEN Outcome(a2, TRUE, TypeErrorMessage("forEach"))
        ELSE IF "hashtag_sets" \notin data.has
        THEN Outcome(a4, TRUE, TypeErrorMessage("forEach"))
        ELSE IF "posting_time" \notin data.has
        THEN Outcome(a5, TRUE, TypeErrorMessage("time"))
        ELSE Outcome(a7, FALSE, "")

CurrentArea ==
    Area(contentTypeText, captionsGrid, hashtagsGrid, postingTimeCard,
         resultsSectionDisplay)

SetArea(area) ==
    /\ contentTypeText' = area.contentTypeText
    /\ captionsGrid' = area.captionsGrid
    /\ hashtagsGrid' = area.hashtagsGrid
    /\ postingTimeCard' = area.postingTimeCard
    /\ resultsSectionDisplay' = area.resultsSectionDisplay

(***************************************************************************)
(* Init: the page as served, before DOMContentLoaded.  It is the state     *)
(* removeImage and resetForm restore.                                      *)
(***************************************************************************)
CharCountOf(text) ==
    [textContent |-> Len(text),
     color |-> IF Len(text) > CharWarn THEN "var(--error-color)"
                                       ELSE "var(--text-secondary)"]

Init ==
    /\ healthPc = "unloaded"
    /\ selectedImage = Null
    /\ previewImgSrc = ""
    /\ uploadAreaDisplay = "block"
    /\ imagePreviewDisplay = "none"
    /\ generateFromImageDisplay = "none"
    /\ readers = [f \in Files |-> 0]
    /\ textBrief = <<>>
    /\ charCount = CharCountOf(<<>>)
    /\ buttons = [t \in Types |-> LoadingState(FALSE)]
    /\ calls = {}
    /\ wire = <<>>
    /\ contentTypeText = ""
    /\ captionsGrid = <<>>
    /\ hashtagsGrid = <<>>
    /\ postingTimeCard = NoPosting
    /\ resultsSectionDisplay = "none"
    /\ toast = [message |-> "", background |-> "", show |-> FALSE]
    /\ timers = <<>>
    /\ sinceToast = ToastDelay
    /\ copies = [type \in CopyTypes |-> 0]

(***************************************************************************)
(* Page load and the liveness check.                                       *)
(***************************************************************************)
\* fetch(...) puts one request on the network
Send(request) == wire' = <<request>>
NoSend == wire' = <<>>

\* The DOMContentLoaded handler: setupEventListeners(); checkServerHealth()
\* up to its await.
DOMContentLoaded ==
    /\ healthPc = "unloaded"
    /\ healthPc' = "fetching"
    /\ Send(HealthRequest)
    /\ UNCHANGED <<copies, selectionVars, textVars, resultVars, toastVars, callVars>>

\* checkServerHealth without the test of response.ok
CheckServerHealthIgnoreStatus(ok) ==
    /\ healthPc = "fetching"
    /\ healthPc' = IF ok THEN "ok" ELSE "notok"
    /\ UNCHANGED toastVars
    /\ NoSend
    /\ UNCHANGED <<copies, selectionVars, textVars, resultVars, callVars>>

\* checkServerHealth after fetch resolved with a response
CheckServerHealthResolve(ok) ==
    /\ healthPc = "fetching"
    /\ IF ok
       THEN healthPc' = "ok" /\ UNCHANGED toastVars
       ELSE /\ healthPc' = "notok"
            /\ ShowToast("Cannot connect to server. Please ensure the backend is running.",
                         "error")
    /\ NoSend
    /\ UNCHANGED <<copies, selectionVars, textVars, resultVars, callVars>>

\* checkServerHealth after fetch rejected
CheckServerHealthReject ==
    /\ healthPc = "fetching"
    /\ healthPc' = "failed"
    /\ ShowToast("Cannot connect to server. Please start the backend on port 5000.",
                 "error")
    /\ NoSend
    /\ UNCHANGED <<copies, selectionVars, textVars, resultVars, callVars>>

(***************************************************************************)
(* Image selection and preview.                                            *)
(***************************************************************************)
Pending == readers["a.png"] + readers["b.jpg"] + readers["notes.txt"] + readers["untyped"]

\* displayImagePreview(file): the load is started, onload fires later
DisplayImagePreview(file) == readers' = [readers EXCEPT ![file] = @ + 1]

\* handleImageSelect(e), e.target.files[0] = file
HandleImageSelect(file) ==
    /\ listening
    /\ IF IsValidImage(file)
       THEN /\ Pending < MaxReaders
            /\ selectedImage' = file
            /\ DisplayImagePreview(file)
            /\ UNCHANGED toastVars
       ELSE /\ UserActs
            /\ ShowToast("Please select a valid image file.", "error")
            /\ UNCHANGED <<selectedImage, readers>>
    /\ UNCHANGED <<previewImgSrc, uploadAreaDisplay, imagePreviewDisplay,
                   generateFromImageDisplay>>
    /\ NoSend
    /\ UNCHANGED <<healthPc, copies, textVars, resultVars, callVars>>

\* handleDrop(e), e.dataTransfer.files[0] = file
HandleDrop(file) ==
    /\ listening
    /\ IF IsValidImage(file)
       THEN /\ Pending < MaxReaders
            /\ selectedImage' = file
            /\ DisplayImagePreview(file)
            /\ UNCHANGED toastVars
       ELSE /\ UserActs
            /\ ShowToast("Please select a valid image file.", "error")
            /\ UNCHANGED <<selectedImage, readers>>
    /\ UNCHANGED <<previewImgSrc, uploadAreaDisplay, imagePreviewDisplay,
                   generateFromImageDisplay>>
    /\ NoSend
    /\ UNCHANGED <<healthPc, copies, textVars, resultVars, callVars>>

\* reader.onload of a load started for file f
ReaderOnload(f) ==
    /\ readers[f] > 0
    /\ readers' = [readers EXCEPT ![f] = @ - 1]
    /\ previewImgSrc' = DataURL(f)
    /\ uploadAreaDisplay' = "none"
    /\ imagePreviewDisplay' = "block"
    /\ generateFromImageDisplay' = "block"
    /\ UNCHANGED selectedImage
    /\ NoSend
    /\ UNCHANGED <<healthPc, copies, textVars, resultVars, toastVars, callVars>>

\* The assignments of removeImage()
RemoveImageBody ==
    /\ selectedImage' = Null
    /\ previewImgSrc' = ""
    /\ uploadAreaDisplay' = "block"
    /\ imagePreviewDisplay' = "none"
    /\ generateFromImageDisplay' = "none"
    /\ UNCHANGED readers

RemoveImage ==
    /\ listening
    /\ RemoveImageBody
    /\ NoSend
    /\ UNCHANGED <<healthPc, copies, textVars, resultVars, toastVars, callVars>>

\* The input event of the text brief: the value is what the user made it
UpdateCharCount(text) ==
    /\ listening
    /\ textBrief' = text
    /\ charCount' = CharCountOf(text)
    /\ NoSend
    /\ UNCHANGED <<healthPc, copies, selectionVars, resultVars, toastVars, callVars>>

ResetForm ==
    /\ listening
    /\ RemoveImageBody
    /\ textBrief' = <<>>
    /\ charCount' = CharCountOf(<<>>)
    /\ resultsSectionDisplay' = "none"
    /\ UNCHANGED <<contentTypeText, captionsGrid, hashtagsGrid, postingTimeCard>>
    /\ NoSend
    /\ UNCHANGED <<healthPc, copies, toastVars, callVars>>

(***************************************************************************)
(* Generation.  A call is an invocation of an async function suspended at  *)
(* an await: at "fetching" it waits for fetch, at "decoding" for           *)
(* response.json().                                                        *)
(***************************************************************************)
Call(type, stage, request) ==
    [type |-> type, stage |-> stage, request |-> request]

\* A click on a disabled button dispatches no event
Clickable(type) == listening /\ ~buttons[type].disabled /\ UserActs

\* generateCaptionsFromImage() up to await fetch
GenerateCaptionsFromImage ==
    /\ Clickable("image")
    /\ IF selectedImage = Null
       THEN /\ ShowToast("Please select an image first.", "error")
            /\ NoSend
            /\ UNCHANGED callVars
       ELSE /\ buttons' = SetLoadingState(buttons, TRUE, "image")
            /\ calls' = calls \cup
                 {Call("image", "fetching", ImageRequest(selectedImage))}
            /\ Send(ImageRequest(selectedImage))
            /\ UNCHANGED toastVars
    /\ UNCHANGED <<healthPc, copies, selectionVars, textVars, resultVars>>

\* A check of emptiness alone
TooShortOnlyEmpty(text) == text = <<>>

\* !text || text.length < 10
TooShort(text) == text = <<>> \/ Len(text) < MinBriefLen

\* generateCaptionsFromText() up to await fetch
GenerateCaptionsFromText ==
    /\ Clickable("text")
    /\ LET text == Trim(textBrief)
       IN  IF TooShort(text)
           THEN /\ ShowToast("Please enter at least 10 characters.", "error")
                /\ NoSend
                /\ UNCHANGED callVars
           ELSE /\ buttons' = SetLoadingState(buttons, TRUE, "text")
                /\ calls' = calls \cup
                     {Call("text", "fetching", TextRequest(text))}
                /\ Send(TextRequest(text))
                /\ UNCHANGED toastVars
    /\ UNCHANGED <<healthPc, copies, selectionVars, textVars, resultVars>>

\* The answers a request can get
ResponsesTo(request) ==
    Responses \cup
    IF request.endpoint = "/generate/image"
    THEN {Response(FALSE, ErrorBody("The upload is not a valid image"))}
    ELSE {}

\* await fetch(...) resolves with a response; response.json() is awaited
\* next.  What the response holds is drawn where the code first reads it
\* (JsonSettle): nothing else can observe it before.
FetchResolve(c) ==
    /\ c \in calls /\ c.stage = "fetching"
    /\ calls' = (calls \ {c}) \cup {Call(c.type, "decoding", c.request)}
    /\ NoSend
    /\ UNCHANGED buttons
    /\ UNCHANGED <<healthPc, copies, selectionVars, textVars, resultVars, toastVars>>

\* A finally block copied from the other function with its type left as it was
FinallyOfImage(c) ==
    /\ buttons' = SetLoadingState(buttons, FALSE, "image")
    /\ calls' = calls \ {c}
    /\ NoSend

\* finally { setLoadingState(false, type) }, and the invocation is over
Finally(c) ==
    /\ buttons' = SetLoadingState(buttons, FALSE, c.type)
    /\ calls' = calls \ {c}
    /\ NoSend

\* A catch block that sends the request once more
FetchRejectRetry(c) ==
    /\ c \in calls /\ c.stage = "fetching"
    /\ ShowToast("Error: " \o FetchErrorMessage, "error")
    /\ wire' = <<c.request>>
    /\ UNCHANGED callVars
    /\ UNCHANGED <<healthPc, copies, selectionVars, textVars, resultVars>>

\* await fetch(...) rejects: catch, finally
FetchReject(c) ==
    /\ c \in calls /\ c.stage = "fetching"
    /\ ShowToast("Error: " \o FetchErrorMessage, "error")
    /\ Finally(c)
    /\ UNCHANGED <<healthPc, copies, selectionVars, textVars, resultVars>>

\* data.error || 'Failed to generate captions.'
ErrorOrFallback(data) ==
    IF "error" \in data.has /\ data.error # ""
    THEN data.error
    ELSE "Failed to generate captions."

\* await response.json() settles; the rest of the try block, catch, finally
JsonSettle(c, response) ==
    /\ c \in calls /\ c.stage = "decoding"
    /\ response \in ResponsesTo(c.request)
    /\ LET data == response.body
           shown == DisplayResults(data, CurrentArea)
       IN  IF data.kind = "notjson"
           THEN /\ ShowToast("Error: " \o JsonErrorMessage(data.raw), "error")
                /\ UNCHANGED resultVars
           ELSE IF response.ok
           THEN /\ SetArea(shown.area)
                /\ IF shown.thrown
                   THEN ShowToast("Error: " \o shown.message, "error")
                   ELSE UNCHANGED toastVars
           ELSE /\ IF data.kind = "null"
                   THEN ShowToast("Error: " \o NullErrorMessage("error"), "error")
                   ELSE ShowToast(ErrorOrFallback(data), "error")
                /\ UNCHANGED resultVars
    /\ Finally(c)
    /\ UNCHANGED <<healthPc, copies, selectionVars, textVars>>

(***************************************************************************)
(* copyToClipboard(text, type), the onclick of the copy button of every    *)
(* card: navigator.clipboard.writeText is started, its promise settles     *)
(* later.  The texts of the cards are plain (no quote, no entity), so the  *)
(* inline handler calls the function with the text of the card; what the   *)
(* system clipboard holds is not part of the state.                        *)
(***************************************************************************)
\* The grid whose cards have a copy button of this type
CardsOf(type) == IF type = "Caption" THEN captionsGrid ELSE hashtagsGrid

CopyToClipboard(type) ==
    /\ CardsOf(type) # <<>>
    /\ UserActs
    /\ copies' = [copies EXCEPT ![type] = @ + 1]
    /\ NoSend
    /\ UNCHANGED <<healthPc, selectionVars, textVars, resultVars, toastVars, callVars>>

\* .then(() => showToast(...)): the write succeeded
CopyToClipboardThen(type) ==
    /\ copies[type] > 0
    /\ copies' = [copies EXCEPT ![type] = @ - 1]
    /\ ShowToast(type \o " copied to clipboard! " \o CopiedMark, "success")
    /\ NoSend
    /\ UNCHANGED <<healthPc, selectionVars, textVars, resultVars, callVars>>

\* .catch(err => showToast(...)): the write failed
CopyToClipboardCatch(type) ==
    /\ copies[type] > 0
    /\ copies' = [copies EXCEPT ![type] = @ - 1]
    /\ ShowToast("Failed to copy. Please try again.", "error")
    /\ NoSend
    /\ UNCHANGED <<healthPc, selectionVars, textVars, resultVars, callVars>>

(***************************************************************************)
(* Time: the clock advances; a callback whose delay has run out fires      *)
(* before the clock advances further.                                      *)
(***************************************************************************)
Advance(ms) ==
    /\ \A i \in 1..Len(timers) : timers[i] > 0
    /\ timers' = [i \in 1..Len(timers) |->
                    IF timers[i] > ms THEN timers[i] - ms ELSE 0]
    /\ sinceToast' = IF sinceToast + ms > ToastDelay THEN ToastDelay
                                                     ELSE sinceToast + ms
    /\ UNCHANGED toast
    /\ NoSend
    /\ UNCHANGED <<healthPc, copies, selectionVars, textVars, resultVars, callVars>>

\* A step of the clock
Tick == Advance(TickMs)

\* The whole delay of a toast goes by without an event
Elapse == Advance(ToastDelay)

\* The setTimeout callback of showToast; callbacks that are due run in the
\* order they were registered
TimerFire ==
    /\ timers # <<>> /\ Head(timers) <= 0
    /\ timers' = Tail(timers)
    /\ toast' = [toast EXCEPT !.show = FALSE]
    /\ UNCHANGED sinceToast
    /\ NoSend
    /\ UNCHANGED <<healthPc, copies, selectionVars, textVars, resultVars, callVars>>

(***************************************************************************)
(* Specifications.  Each one lets the user do part of what the page        *)
(* offers, with all the handlers that part reaches, so that TLC can visit  *)
(* every state; a handler left out of a specification writes none of the   *)
(* variables the properties checked under it read, except the toast.       *)
(* Settle is the part they share: the continuations of the async           *)
(* functions.  Time passes in all of them: by the steps of the clock in    *)
(* ClockSpec, by whole delays (Timeout) in the others.                     *)
(***************************************************************************)
Timeout ==
    \/ Elapse
    \/ TimerFire

LoadStep ==
    \/ DOMContentLoaded
    \/ \E ok \in BOOLEAN : CheckServerHealthResolve(ok)
    \/ CheckServerHealthReject

\* The page load when the server is up
LoadOk ==
    \/ DOMContentLoaded
    \/ CheckServerHealthResolve(TRUE)

Settle ==
    \/ \E c \in calls : FetchResolve(c)
    \/ \E c \in calls : FetchReject(c)
    \/ \E c \in calls : \E response \in ResponsesTo(c.request) : JsonSettle(c, response)

\* Both kinds of generation, each with every answer, after every outcome of
\* the liveness check: one image to choose and one brief to type (the brief
\* is empty before).
OneFile == {"a.png"}
OneText == {<<" ">> \o Repeat("a", MinBriefLen)}

Next ==
    \/ LoadStep
    \/ \E file \in OneFile : HandleImageSelect(file)
    \/ \E f \in Files : ReaderOnload(f)
    \/ \E text \in OneText : UpdateCharCount(text)
    \/ GenerateCaptionsFromImage
    \/ GenerateCaptionsFromText
    \/ Settle
    \/ Timeout

Spec == Init /\ [][Next]_vars

\* The same with the server up.  A promise settles in the end (fetch
\* resolves or rejects, json() resolves or rejects) and its continuation
\* then runs: weak fairness of every call's next step.
LoadingNext ==
    \/ LoadOk
    \/ \E file \in OneFile : HandleImageSelect(file)
    \/ \E f \in Files : ReaderOnload(f)
    \/ \E text \in OneText : UpdateCharCount(text)
    \/ GenerateCaptionsFromImage
    \/ GenerateCaptionsFromText
    \/ Settle
    \/ Timeout

SettleCall(c) ==
    \/ FetchResolve(c)
    \/ FetchReject(c)
    \/ \E response \in ResponsesTo(c.request) : JsonSettle(c, response)

PossibleCalls ==
    { Call("image", stage, ImageRequest(f)) :
        stage \in {"fetching", "decoding"}, f \in OneFile }
    \cup { Call("text", stage, TextRequest(Trim(text))) :
        stage \in {"fetching", "decoding"}, text \in OneText }

LoadingSpec ==
    Init /\ [][LoadingNext]_vars /\ \A c \in PossibleCalls : WF_vars(SettleCall(c))

\* Every way to choose, drop and remove an image; generation from the image
SelectionNext ==
    \/ LoadOk
    \/ \E file \in Files \cup {NoFile} : HandleImageSelect(file)
    \/ \E file \in Files \cup {NoFile} : HandleDrop(file)
    \/ \E f \in Files : ReaderOnload(f)
    \/ RemoveImage
    \/ ResetForm
    \/ GenerateCaptionsFromImage
    \/ Settle
    \/ Timeout

SelectionSpec == Init /\ [][SelectionNext]_vars

\* Every brief; generation from the brief
TextNext ==
    \/ LoadOk
    \/ \E text \in TextInputs : UpdateCharCount(text)
    \/ GenerateCaptionsFromText
    \/ ResetForm
    \/ Settle
    \/ Timeout

TextSpec == Init /\ [][TextNext]_vars

\* The clock, with every way to a toast: the liveness check, a file that is
\* no image, generation without input, a request that fails, a copy
FewFiles == {"a.png", "notes.txt"}

ClockNext ==
    \/ LoadStep
    \/ \E file \in FewFiles : HandleImageSelect(file)
    \/ \E f \in Files : ReaderOnload(f)
    \/ GenerateCaptionsFromImage
    \/ GenerateCaptionsFromText
    \/ Settle
    \/ \E type \in CopyTypes : CopyToClipboard(type)
    \/ \E type \in CopyTypes : CopyToClipboardThen(type)
    \/ \E type \in CopyTypes : CopyToClipboardCatch(type)
    \/ Tick
    \/ TimerFire

ClockSpec == Init /\ [][ClockNext]_vars

(***************************************************************************)
(* Properties.                                                             *)
(***************************************************************************)
InFlight(type) == { c \in calls : c.type = type }
Failed(response) == ~response.ok \/ response.body.kind = "notjson"
HasAllFields(data) == data.kind = "object" /\ ResultFields \subseteq data.has
ErrorToast(message) == ToastShown(message, "error")

\* C1: a GenerationResult of the handler has exactly 3 captions and 3
\* hashtag sets, none of them empty, also when the AI gave fewer; and the
\* step that displays such a result leaves exactly one card per caption and
\* per hashtag set in the grids, 3 and 3, and shows the results section.
C1_ThreeCards ==
    /\ \A r \in GenerationResults :
          /\ Len(r.captions) = ResultCount
          /\ Len(r.hashtag_sets) = ResultCount
          /\ \A i \in 1..Len(r.hashtag_sets) : r.hashtag_sets[i].hashtags # <<>>
    /\ [][\A c \in calls : \A response \in HandlerResponses :
            (response.ok /\ JsonSettle(c, response)) =>
                /\ Len(captionsGrid') = ResultCount
                /\ Len(hashtagsGrid') = ResultCount
                /\ \A i \in 1..ResultCount :
                      /\ captionsGrid'[i] = CreateCaptionCard(response.body.captions[i])
                      /\ hashtagsGrid'[i] = CreateHashtagCard(response.body.hashtag_sets[i])
                /\ resultsSectionDisplay' = "block"]_vars

\* C1 witness: the padded result of a partial AI output is on display
C1_PaddedDisplayed ==
    /\ resultsSectionDisplay = "block"
    /\ Len(captionsGrid) = ResultCount
    /\ captionsGrid[1] = CreateCaptionCard(PartialRaw.captions[1])
    /\ captionsGrid[ResultCount] = CreateCaptionCard(PlaceholderCaption)
    /\ Len(hashtagsGrid) = ResultCount
    /\ hashtagsGrid[1].tags = PlaceholderSet.hashtags

\* C2: generateCaptionsFromText with a trimmed brief shorter than 10 shows
\* the error toast, sends nothing and leaves the loading state alone; every
\* text_brief sent, and every one of a call in flight, has length >= 10.
C2_ShortBriefRejected ==
    /\ [](\A c \in InFlight("text") : Len(c.request.text) >= MinBriefLen)
    /\ [](\A i \in 1..Len(wire) :
            wire[i].endpoint = "/generate/text" => Len(wire[i].text) >= MinBriefLen)
    /\ [][(GenerateCaptionsFromText /\ Len(Trim(textBrief)) < MinBriefLen) =>
            /\ toast' = ErrorToast("Please enter at least 10 characters.")
            /\ wire' = <<>>
            /\ UNCHANGED <<buttons, calls>>]_vars

\* C2 witness: a brief of 10 or more characters that trims to fewer was
\* refused: the toast is up, nothing was sent, nothing is loading
C2_PaddedBriefRefused ==
    /\ Len(textBrief) >= MinBriefLen
    /\ Len(Trim(textBrief)) < MinBriefLen
    /\ toast = ErrorToast("Please enter at least 10 characters.")
    /\ sinceToast = 0
    /\ wire = <<>>
    /\ calls = {}
    /\ ~buttons["text"].disabled

\* C3: a failed request shows a toast that is not empty and never calls
\* displayResults: the body's error string when the response is not OK and
\* the string is not empty, the fallback when the body decodes and its error
\* field is missing or empty, 'Error: ' and the exception's message when
\* fetch or json() throws.
C3_FailureSurfaced ==
    [][\A c \in calls :
        /\ FetchReject(c) =>
              /\ toast' = ErrorToast("Error: " \o FetchErrorMessage)
              /\ UNCHANGED resultVars
        /\ \A response \in ResponsesTo(c.request) :
              (Failed(response) /\ JsonSettle(c, response)) =>
                LET data == response.body
                IN  /\ toast'.show /\ toast'.message # ""
                    /\ toast'.background = "var(--error-color)"
                    /\ UNCHANGED resultVars
                    /\ data.kind = "notjson" =>
                          toast'.message = "Error: " \o JsonErrorMessage(data.raw)
                    /\ (data.kind # "notjson" /\ "error" \in data.has /\ data.error # "") =>
                          toast'.message = data.error
                    /\ (data.kind # "notjson" /\ ("error" \notin data.has \/ data.error = "")) =>
                          toast'.message = "Failed to generate captions."]_vars

\* C4: whenever the results section is shown, what it shows is the complete
\* rendering of one response: its content type, all its captions, all its
\* hashtag sets and its posting time.
C4_NoPartialDisplay ==
    resultsSectionDisplay = "block" =>
        \E response \in Responses :
            /\ HasAllFields(response.body)
            /\ CurrentArea = DisplayResults(response.body, CurrentArea).area

\* C5: a step sends at most one request, only the page load and the two
\* generate handlers send one (no continuation does: nothing is retried),
\* and a generate handler sends it to its own endpoint.
C5_NoRetry ==
    [][/\ Len(wire') <= 1
       /\ wire' # <<>> =>
             \/ DOMContentLoaded
             \/ GenerateCaptionsFromImage /\ wire'[1].endpoint = "/generate/image"
             \/ GenerateCaptionsFromText /\ wire'[1].endpoint = "/generate/text"
       /\ \A c \in calls :
             (FetchReject(c) \/ \E response \in ResponsesTo(c.request) : JsonSettle(c, response))
                => wire' = <<>> /\ InFlight(c.type)' = {}]_vars

\* C5 witness: a request has failed on the network and nothing has been sent since
C5_FailedAndQuiet ==
    /\ toast = ErrorToast("Error: " \o FetchErrorMessage)
    /\ sinceToast = 0
    /\ wire = <<>>
    /\ calls = {}

\* C6: selectedImage is null or a file whose type starts with 'image/';
\* generateCaptionsFromImage without a selection shows the toast and sends
\* nothing; every request to /generate/image is a POST whose form field
\* `file` holds the selected file.
C6_OnlyImagesSent ==
    /\ [](selectedImage # Null =>
            selectedImage \in Files /\ StartsWith(FileType(selectedImage), ImagePrefix))
    /\ [](\A i \in 1..Len(wire) :
            wire[i].endpoint = "/generate/image" =>
                /\ wire[i].method = "POST"
                /\ wire[i].field = "file"
                /\ wire[i].file = selectedImage
                /\ StartsWith(FileType(wire[i].file), ImagePrefix))
    /\ [](\A c \in InFlight("image") :
            StartsWith(FileType(c.request.file), ImagePrefix))
    /\ [][(GenerateCaptionsFromImage /\ selectedImage = Null) =>
            /\ toast' = ErrorToast("Please select an image first.")
            /\ wire' = <<>>
            /\ UNCHANGED <<buttons, calls>>]_vars

\* C6 witness: after a file that is no image was dropped on a selection, the
\* selected image went out in the form field `file`
C6_ImagePosted ==
    /\ toast = ErrorToast("Please select a valid image file.")
    /\ wire = <<ImageRequest("b.jpg")>>
    /\ selectedImage = "b.jpg"

\* C7: the page load sends exactly one GET /health and no other step sends
\* one; the check ends with the error toast exactly when the response is not
\* OK or the fetch fails; however it ends, a generate handler can run
\* whenever its button is not loading (and the user acts at all).
C7_HealthCheck ==
    /\ [][/\ (healthPc = "unloaded" /\ healthPc' # "unloaded") => wire' = <<HealthRequest>>
          /\ (\E i \in 1..Len(wire') : wire'[i].endpoint = "/health") =>
                healthPc = "unloaded" /\ wire' = <<HealthRequest>>
          /\ healthPc' = "unloaded" => healthPc = "unloaded"
          /\ (healthPc = "fetching" /\ healthPc' # "fetching") =>
                /\ healthPc' \in {"ok", "notok", "failed"}
                /\ healthPc' = "ok" => UNCHANGED toastVars
                /\ healthPc' = "notok" => toast' = ErrorToast(
                      "Cannot connect to server. Please ensure the backend is running.")
                /\ healthPc' = "failed" => toast' = ErrorToast(
                      "Cannot connect to server. Please start the backend on port 5000.")]_vars
    /\ []((healthPc # "unloaded" /\ UserActs) =>
            /\ InFlight("image") = {} => ENABLED GenerateCaptionsFromImage
            /\ InFlight("text") = {} => ENABLED GenerateCaptionsFromText)

\* C7 witness: the check has failed and a generation request has just been sent
C7_GenerationAfterFailedCheck ==
    /\ healthPc \in {"notok", "failed"}
    /\ Len(wire) = 1
    /\ wire[1].endpoint \in {"/generate/image", "/generate/text"}

\* C8: during the 3000 ms after a showToast call the toast is visible.
C8_VisibleForDelay == sinceToast < ToastDelay => toast.show

\* C9: a generate button is disabled, its label hidden and its spinner shown
\* exactly while a request of its type is in flight; at most one request per
\* type is in flight; a disabled button is enabled again in the end.
C9_LoadingBrackets ==
    /\ [](\A t \in Types :
            /\ buttons[t] = LoadingState(InFlight(t) # {})
            /\ Cardinality(InFlight(t)) <= 1)
    /\ \A t \in Types : (buttons[t].disabled ~> ~buttons[t].disabled)

\* C9 witness: displayResults has thrown on a response and the image button
\* is enabled again while a text request is still in flight
C9_EnabledAfterException ==
    /\ toast = ErrorToast("Error: " \o TypeErrorMessage("forEach"))
    /\ sinceToast = 0
    /\ ~buttons["image"].disabled
    /\ buttons["text"].disabled
    /\ InFlight("text") # {}

\* C10: whenever the preview and the generate button are shown, an image is
\* selected and the preview is that image.
C10_PreviewConsistent ==
    (imagePreviewDisplay = "block" /\ generateFromImageDisplay = "block") =>
        /\ selectedImage # Null
        /\ previewImgSrc = DataURL(selectedImage)
=============================================================================
